---- MODULE Spec2Model ----
(***************************************************************************)
(* Model of the touch-from-button profile editor of citra_qt:              *)
(* ConfigureTouchFromButton (the dialog: profiles, binding rows, the       *)
(* capture of one input) and TouchScreenPreview (the canvas: markers and   *)
(* the device <-> pixel mapping), both in                                  *)
(* src/citra_qt/configuration/configure_touch_from_button.cpp.             *)
(*                                                                         *)
(* Indices (selected_index, row numbers, current_row) are 0-based as in    *)
(* the C++ code; TLA+ sequences are 1-based, so element i of a vector v is *)
(* v[i + 1].                                                               *)
(***************************************************************************)
EXTENDS Integers, Sequences, FiniteSets, TLC

(***************************************************************************)
(* Bounds of the model.                                                    *)
(***************************************************************************)
\* most profiles the store may hold (NewMapping is disabled beyond it)
MaxProfiles == 3
\* most binding rows the editor may show (NewBinding is disabled beyond it)
MaxRows == 2
\* most events by which the user may change the editor outside a capture (clicks,
\* edits, key presses); the events that end a capture are not counted
MaxUserEvents == 3

(***************************************************************************)
(* Program constants.                                                      *)
(***************************************************************************)
\* Core::kScreenBottomWidth / kScreenBottomHeight (core/3ds.h)
kScreenBottomWidth == 320
kScreenBottomHeight == 240
\* Qt::Key_A, Qt::Key_Escape, Qt::Key_Delete
Key_A == 65
Key_Escape == 16777216
Key_Delete == 16777223

(***************************************************************************)
(* Decimal text of integers: std::to_string / QString::number one way,     *)
(* std::stoi / QString::toInt the other way (a text that is not a number   *)
(* converts to the default).                                               *)
(***************************************************************************)
Digit == <<"0", "1", "2", "3", "4", "5", "6", "7", "8", "9">>

RECURSIVE QStringNumber(_)
QStringNumber(n) ==
    IF n < 0 THEN "-" \o QStringNumber(-n)
    ELSE IF n < 10 THEN Digit[n + 1]
    ELSE QStringNumber(n \div 10) \o Digit[(n % 10) + 1]

\* the integers whose decimal text the model can read back
Numbers == (-5 .. 420) \cup {Key_A, Key_Escape, Key_Delete}

NumberOfText ==
    [text \in {QStringNumber(n) : n \in Numbers} |->
        CHOOSE n \in Numbers : QStringNumber(n) = text]

ToInt(text, default) ==
    IF text \in DOMAIN NumberOfText THEN NumberOfText[text] ELSE default

(***************************************************************************)
(* Common::ParamPackage.  A serialized package is a list of pieces, one    *)
(* per ','-separated part of the text; a well-formed piece is a pair       *)
(* <<key, value>> (the text "key:value"), any other piece is malformed and *)
(* is skipped by the parser.  A package is a function from its keys to     *)
(* their values.                                                           *)
(***************************************************************************)
\* canonical order of the keys in a serialized package
KeyOrder == <<"engine", "code", "button", "x", "y">>

EmptyPackage == [k \in {} |-> ""]

Has(package, key) == key \in DOMAIN package

Set(package, key, value) ==
    [k \in (DOMAIN package) \cup {key} |-> IF k = key THEN value ELSE package[k]]

GetInt(package, key, default) ==
    IF Has(package, key) THEN ToInt(package[key], default) ELSE default

GetStr(package, key, default) ==
    IF Has(package, key) THEN package[key] ELSE default

RECURSIVE Parse(_)
Parse(text) ==
    IF text = <<>> THEN EmptyPackage
    ELSE LET piece == text[Len(text)]
             rest == Parse(SubSeq(text, 1, Len(text) - 1))
         IN  IF Len(piece) = 2 THEN Set(rest, piece[1], piece[2]) ELSE rest

RECURSIVE SerializeFrom(_, _)
SerializeFrom(package, i) ==
    IF i > Len(KeyOrder) THEN <<>>
    ELSE IF Has(package, KeyOrder[i])
         THEN <<(<<KeyOrder[i], package[KeyOrder[i]]>>)>> \o SerializeFrom(package, i + 1)
         ELSE SerializeFrom(package, i + 1)

Serialize(package) == SerializeFrom(package, 1)

\* InputCommon::GenerateKeyboardParam
GenerateKeyboardParam(key_code) ==
    <<(<<"engine", "keyboard">>), (<<"code", QStringNumber(key_code)>>)>>

(***************************************************************************)
(* Display text of a binding.                                              *)
(***************************************************************************)
GetKeyName(key_code) ==
    CASE key_code = Key_A -> "A"
      [] key_code = Key_Escape -> "Esc"
      [] key_code = Key_Delete -> "Del"
      [] OTHER -> "Key " \o QStringNumber(key_code)

ButtonToText(param) ==
    IF ~Has(param, "engine") THEN "[not set]"
    ELSE IF GetStr(param, "engine", "") = "keyboard" THEN GetKeyName(GetInt(param, "code", 0))
    ELSE IF GetStr(param, "engine", "") = "sdl"
         THEN IF Has(param, "button") THEN "Button " \o GetStr(param, "button", "") ELSE ""
    ELSE "[unknown]"

(***************************************************************************)
(* TouchScreenPreview: the mapping between device points and pixels.  The  *)
(* code computes in float; every quotient below is a multiple of           *)
(* 1/(2*divisor) with operands far below 2^24, so the float results round  *)
(* to the same integers as the exact fractions used here.                  *)
(***************************************************************************)
\* static_cast<int> of the fraction num/den (den > 0): truncation toward zero
TruncDiv(num, den) == IF num >= 0 THEN num \div den ELSE -((-num) \div den)

NoPoint == [valid |-> FALSE, x |-> 0, y |-> 0]

Point(px, py) == [valid |-> TRUE, x |-> px, y |-> py]

\* one axis of MapToDeviceCoords: t = 0.5 + (screen - margin) * (size - 1) / content,
\* given as the fraction TNum / TDen
TNum(screen, margin, size, content) == content + 2 * (screen - margin) * (size - 1)

TDen(content) == 2 * content

\* t >= 0.5f && t < size
TInRange(screen, margin, size, content) ==
    /\ 2 * TNum(screen, margin, size, content) >= TDen(content)
    /\ TNum(screen, margin, size, content) < size * TDen(content)

\* MapToDeviceCoords as it would be without t_x < kScreenBottomWidth and
\* t_y < kScreenBottomHeight
MapToDeviceCoords_NoUpperBound(canvas, screen_x, screen_y) ==
    IF /\ 2 * TNum(screen_x, canvas.left, kScreenBottomWidth, canvas.width)
            >= TDen(canvas.width)
       /\ 2 * TNum(screen_y, canvas.top, kScreenBottomHeight, canvas.height)
            >= TDen(canvas.height)
    THEN Point(TruncDiv(TNum(screen_x, canvas.left, kScreenBottomWidth, canvas.width),
                        TDen(canvas.width)),
               TruncDiv(TNum(screen_y, canvas.top, kScreenBottomHeight, canvas.height),
                        TDen(canvas.height)))
    ELSE NoPoint

MapToDeviceCoords(canvas, screen_x, screen_y) ==
    IF /\ TInRange(screen_x, canvas.left, kScreenBottomWidth, canvas.width)
       /\ TInRange(screen_y, canvas.top, kScreenBottomHeight, canvas.height)
    THEN Point(TruncDiv(TNum(screen_x, canvas.left, kScreenBottomWidth, canvas.width),
                        TDen(canvas.width)),
               TruncDiv(TNum(screen_y, canvas.top, kScreenBottomHeight, canvas.height),
                        TDen(canvas.height)))
    ELSE NoPoint

\* one axis of PositionDot: the left (top) pixel the marker label is moved to,
\* static_cast<int>(device * (content - 1) / (size - 1) + margin - label / 2 + 0.5f)
PositionAxis(device, margin, size, content, label) ==
    TruncDiv(2 * device * (content - 1) + (2 * margin - label + 1) * (size - 1),
             2 * (size - 1))

PositionDot(canvas, device_x, device_y) ==
    [x |-> PositionAxis(device_x, canvas.left, kScreenBottomWidth, canvas.width, canvas.dot_w),
     y |-> PositionAxis(device_y, canvas.top, kScreenBottomHeight, canvas.height, canvas.dot_h)]

\* the pixel at the centre of a marker label placed by PositionDot
DotCentre(canvas, device_x, device_y) ==
    [x |-> PositionDot(canvas, device_x, device_y).x + canvas.dot_w \div 2,
     y |-> PositionDot(canvas, device_x, device_y).y + canvas.dot_h \div 2]

(***************************************************************************)
(* State.  ConfigureTouchFromButton: touch_maps, selected_index, the rows  *)
(* of binding_list_model with the view's current row and selected row, the *)
(* enabled state of the delete-profile and delete-binding buttons, the     *)
(* capture (input_setter, the two timers, device_pollers, the              *)
(* keyboard/mouse grab).  TouchScreenPreview: dots, max_dot_id,            *)
(* drag_state, highlighted (the ids of the markers that carry the          *)
(* highlight style).  setter_calls records the invocations of the          *)
(* completion callback of the latest capture (clean: the cleanup had been  *)
(* done when it was last invoked); event names the handler that ran last   *)
(* and tells whether it changed the editor; user_events counts the user's  *)
(* events.  probe holds the inputs and the progress of the specifications  *)
(* that exercise one operation or one scenario.                            *)
(***************************************************************************)
VARIABLES touch_maps, selected_index, button_delete, rows, current_row,
          selected_row, highlighted, button_delete_bind,
          dots, max_dot_id, drag_state,
          input_setter, timeout_timer, poll_timer, device_pollers, grab,
          setter_calls, event, user_events, probe

editor_vars == <<touch_maps, selected_index, button_delete, rows, current_row,
                 selected_row, highlighted, button_delete_bind,
                 dots, max_dot_id, drag_state,
                 input_setter, timeout_timer, poll_timer, device_pollers, grab,
                 setter_calls, event, user_events>>

vars == <<touch_maps, selected_index, button_delete, rows, current_row,
          selected_row, highlighted, button_delete_bind,
          dots, max_dot_id, drag_state,
          input_setter, timeout_timer, poll_timer, device_pollers, grab,
          setter_calls, event, user_events, probe>>

\* the editor's state as one record, the form the handlers below work on
State ==
    [touch_maps |-> touch_maps, selected_index |-> selected_index,
     button_delete |-> button_delete, rows |-> rows, current_row |-> current_row,
     selected_row |-> selected_row, highlighted |-> highlighted,
     button_delete_bind |-> button_delete_bind,
     dots |-> dots, max_dot_id |-> max_dot_id, drag_state |-> drag_state,
     input_setter |-> input_setter, timeout_timer |-> timeout_timer,
     poll_timer |-> poll_timer, device_pollers |-> device_pollers, grab |-> grab,
     setter_calls |-> setter_calls]

\* the std::optional input_setter when empty
NoSetter == [set |-> FALSE, row_index |-> 0, is_new |-> FALSE]

\* drag_state with no marker pressed
NoDrag == [dot |-> 0, active |-> FALSE]

NoCalls == [started |-> FALSE, count |-> 0, params |-> <<>>, cancel |-> FALSE, clean |-> FALSE]

(***************************************************************************)
(* TouchScreenPreview: the markers.                                        *)
(***************************************************************************)
\* AddDot as it would be if it numbered a marker by the markers shown
AddDot_ReusesIds(s, device_x, device_y) ==
    [s EXCEPT !.max_dot_id = Len(s.dots) + 1,
              !.dots = Append(@, [id |-> Len(s.dots) + 1, x |-> device_x, y |-> device_y])]

AddDot(s, device_x, device_y) ==
    [s EXCEPT !.max_dot_id = @ + 1,
              !.dots = Append(@, [id |-> s.max_dot_id + 1, x |-> device_x, y |-> device_y])]

\* position in dots of the first marker with this id, 0 when there is none
DotIndex(dot_list, id) ==
    IF \E i \in 1..Len(dot_list) : dot_list[i].id = id
    THEN CHOOSE i \in 1..Len(dot_list) :
             /\ dot_list[i].id = id
             /\ \A j \in 1..(i - 1) : dot_list[j].id # id
    ELSE 0

\* the label is deleted with its style, which clears the QPointer
\* drag_state.dot to it
RemoveDot(s, id) ==
    LET i == DotIndex(s.dots, id)
    IN  IF i = 0 THEN s
        ELSE [s EXCEPT !.dots = SubSeq(@, 1, i - 1) \o SubSeq(@, i + 1, Len(@)),
                       !.highlighted = @ \ {id},
                       !.drag_state = IF @.dot = id THEN NoDrag ELSE @]

\* the highlight style is put on, or taken off, the label with this id
HighlightDot(s, id, active) ==
    IF DotIndex(s.dots, id) = 0 THEN s
    ELSE IF active THEN [s EXCEPT !.highlighted = @ \cup {id}]
    ELSE [s EXCEPT !.highlighted = @ \ {id}]

MoveDot(s, id, device_x, device_y) ==
    LET i == DotIndex(s.dots, id)
    IN  IF i = 0 THEN s
        ELSE [s EXCEPT !.dots[i].x = device_x, !.dots[i].y = device_y]

(***************************************************************************)
(* binding_list and its selection model.  The view selects one row at a    *)
(* time; selected_row is that row (-1: none) and current_row the view's    *)
(* current index.  selectionChanged(selected, deselected) runs             *)
(* OnBindingSelection, given here the row selected and the row deselected  *)
(* (-1: the selection passed is empty).                                    *)
(***************************************************************************)
\* OnBindingSelection as it would be if it left the deselected row's marker alone
OnBindingSelection_KeepsOld(s, selected, deselected) ==
    LET s1 == [s EXCEPT !.button_delete_bind = selected >= 0]
    IN  IF selected >= 0 THEN HighlightDot(s1, s.rows[selected + 1].dot, TRUE) ELSE s1

OnBindingSelection(s, selected, deselected) ==
    LET s1 == [s EXCEPT !.button_delete_bind = selected >= 0]
        s2 == IF selected >= 0
              THEN HighlightDot(s1, s.rows[selected + 1].dot, TRUE) ELSE s1
    IN  IF deselected >= 0
        THEN HighlightDot(s2, s.rows[deselected + 1].dot, FALSE) ELSE s2

\* QAbstractItemView::setCurrentIndex, also a click on a row: the row becomes
\* the current and the selected one
setCurrentIndex(s, row) ==
    LET s1 == [s EXCEPT !.current_row = row, !.selected_row = row]
    IN  IF s.selected_row = row THEN s1
        ELSE OnBindingSelection(s1, row, s.selected_row)

\* a Ctrl+click on the selected row takes it out of the selection and
\* leaves it the current row
ToggleSelectedRow(s) ==
    IF s.selected_row < 0 THEN s
    ELSE OnBindingSelection([s EXCEPT !.selected_row = -1], -1, s.selected_row)

(***************************************************************************)
(* binding_list_model: removal of rows.                                    *)
(***************************************************************************)
\* OnBindingDeleted as it would be if it removed no marker
OnBindingDeleted_KeepsDots(s, first, last) == s

RECURSIVE OnBindingDeleted(_, _, _)
OnBindingDeleted(s, first, last) ==
    IF first > last THEN s
    ELSE IF first >= Len(s.rows) THEN s
    ELSE OnBindingDeleted(RemoveDot(s, s.rows[first + 1].dot), first + 1, last)

\* the view's current row once rows first .. first+count-1 are gone: the row
\* that followed the removed ones, else the row before them, else none
CurrentAfterRemoval(current, first, count, row_count) ==
    IF current < first THEN current
    ELSE IF current >= first + count THEN current - count
    ELSE IF first + count < row_count THEN first
    ELSE first - 1

\* QStandardItemModel::removeRows: rowsAboutToBeRemoved is emitted, then the
\* rows go.  The signal reaches, in the order of their connection, the view
\* (when the current row goes and others stay, the row after the removed
\* ones, else the row before them, is made current and selected), the
\* selection model (a removed row leaves the selection) and OnBindingDeleted.
removeRows(s, first, count) ==
    IF count <= 0 \/ first < 0 \/ first + count > Len(s.rows) THEN s
    ELSE LET row_count == Len(s.rows)
             next == IF first + count < row_count THEN first + count ELSE first - 1
             s1 == IF /\ s.current_row >= first
                      /\ s.current_row < first + count
                      /\ row_count > count
                   THEN setCurrentIndex(s, next) ELSE s
             s2 == IF s1.selected_row >= first /\ s1.selected_row < first + count
                   THEN OnBindingSelection([s1 EXCEPT !.selected_row = -1],
                                           -1, s1.selected_row)
                   ELSE s1
             s3 == OnBindingDeleted(s2, first, first + count - 1)
         IN  [s3 EXCEPT !.rows = SubSeq(@, 1, first) \o SubSeq(@, first + count + 1, Len(@)),
                        !.current_row = CurrentAfterRemoval(s.current_row, first, count, row_count),
                        !.selected_row = CurrentAfterRemoval(s2.selected_row, first, count, row_count)]

(***************************************************************************)
(* ConfigureTouchFromButton: profiles.                                     *)
(***************************************************************************)
\* touch_maps[selected_index].buttons (no profile is read when the index is
\* outside the vector, which no reachable state has)
SelectedButtons(s) ==
    IF s.selected_index >= 0 /\ s.selected_index < Len(s.touch_maps)
    THEN s.touch_maps[s.selected_index + 1].buttons
    ELSE <<>>

\* the loop of UpdateUiDisplay from button i on: one row and one marker per stored binding
RECURSIVE LoadButtons(_, _, _)
LoadButtons(s, buttons, i) ==
    IF i > Len(buttons) THEN s
    ELSE LET package == Parse(buttons[i])
             s1 == AddDot(s, GetInt(package, "x", 0), GetInt(package, "y", 0))
             row == [text |-> ButtonToText(package),
                     data |-> buttons[i],
                     x |-> QStringNumber(GetInt(package, "x", 0)),
                     y |-> QStringNumber(GetInt(package, "y", 0)),
                     dot |-> s1.max_dot_id]
         IN  LoadButtons([s1 EXCEPT !.rows = Append(@, row)], buttons, i + 1)

\* UpdateUiDisplay as it would be if it left the delete-profile button enabled
UpdateUiDisplay_DeleteEnabled(s) ==
    LET s1 == [s EXCEPT !.button_delete = TRUE, !.button_delete_bind = FALSE]
        s2 == removeRows(s1, 0, Len(s1.rows))
    IN  LoadButtons(s2, SelectedButtons(s2), 1)

UpdateUiDisplay(s) ==
    LET s1 == [s EXCEPT !.button_delete = Len(s.touch_maps) > 1,
                        !.button_delete_bind = FALSE]
        s2 == removeRows(s1, 0, Len(s1.rows))
    IN  LoadButtons(s2, SelectedButtons(s2), 1)

\* SavedButtons as it would be without params.Set("x", ...) and params.Set("y", ...)
RECURSIVE SavedButtons_StaleCoordinates(_, _)
SavedButtons_StaleCoordinates(row_list, i) ==
    IF i >= Len(row_list) THEN <<>>
    ELSE LET bind_str == row_list[i + 1].data
             params == Parse(bind_str)
         IN  IF bind_str = <<>> THEN SavedButtons_StaleCoordinates(row_list, i + 1)
             ELSE IF ~Has(params, "engine") THEN SavedButtons_StaleCoordinates(row_list, i + 1)
             ELSE <<Serialize(params)>> \o SavedButtons_StaleCoordinates(row_list, i + 1)

\* SavedButtons as it would be without the test of params.Has("engine")
RECURSIVE SavedButtons_KeepsUnbound(_, _)
SavedButtons_KeepsUnbound(row_list, i) ==
    IF i >= Len(row_list) THEN <<>>
    ELSE LET bind_str == row_list[i + 1].data
             params == Parse(bind_str)
         IN  IF bind_str = <<>> THEN SavedButtons_KeepsUnbound(row_list, i + 1)
             ELSE <<Serialize(Set(Set(params,
                                      "x", QStringNumber(ToInt(row_list[i + 1].x, 0))),
                                  "y", QStringNumber(ToInt(row_list[i + 1].y, 0))))>>
                  \o SavedButtons_KeepsUnbound(row_list, i + 1)

\* the loop of SaveCurrentMapping from row i on (0-based): the bindings written
RECURSIVE SavedButtons(_, _)
SavedButtons(row_list, i) ==
    IF i >= Len(row_list) THEN <<>>
    ELSE LET bind_str == row_list[i + 1].data
             params == Parse(bind_str)
         IN  IF bind_str = <<>> THEN SavedButtons(row_list, i + 1)
             ELSE IF ~Has(params, "engine") THEN SavedButtons(row_list, i + 1)
             ELSE <<Serialize(Set(Set(params,
                                      "x", QStringNumber(ToInt(row_list[i + 1].x, 0))),
                                  "y", QStringNumber(ToInt(row_list[i + 1].y, 0))))>>
                  \o SavedButtons(row_list, i + 1)

SaveCurrentMapping(s) ==
    [s EXCEPT !.touch_maps[s.selected_index + 1].buttons = SavedButtons(s.rows, 0)]

\* the handler of ui->mapping's activated(index)
MappingActivated(s, index) ==
    UpdateUiDisplay([SaveCurrentMapping(s) EXCEPT !.selected_index = index])

\* NewMapping as it would be if it left selected_index alone
NewMapping_KeepsSelection(s, name) ==
    IF name = "" THEN s
    ELSE LET s1 == IF s.selected_index > 0 THEN SaveCurrentMapping(s) ELSE s
             s2 == [s1 EXCEPT !.touch_maps = Append(@, [name |-> name, buttons |-> <<>>])]
         IN  UpdateUiDisplay(s2)

NewMapping(s, name) ==
    IF name = "" THEN s
    ELSE LET s1 == IF s.selected_index > 0 THEN SaveCurrentMapping(s) ELSE s
             s2 == [s1 EXCEPT !.touch_maps = Append(@, [name |-> name, buttons |-> <<>>])]
             s3 == [s2 EXCEPT !.selected_index = Len(s2.touch_maps) - 1]
         IN  UpdateUiDisplay(s3)

\* DeleteMapping as it would be if it kept selected_index
DeleteMapping_KeepsIndex(s, answer_yes) ==
    IF ~answer_yes THEN s
    ELSE UpdateUiDisplay([s EXCEPT !.touch_maps = SubSeq(@, 1, s.selected_index)
                                                  \o SubSeq(@, s.selected_index + 2, Len(@))])

\* DeleteMapping as it would be if it erased touch_maps.begin()
DeleteMapping_ErasesFirst(s, answer_yes) ==
    IF ~answer_yes THEN s
    ELSE LET s1 == [s EXCEPT !.touch_maps = SubSeq(@, 2, Len(@))]
             s2 == [s1 EXCEPT !.selected_index = IF Len(s1.touch_maps) > 0 THEN 0 ELSE -1]
         IN  UpdateUiDisplay(s2)

DeleteMapping(s, answer_yes) ==
    IF ~answer_yes THEN s
    ELSE LET s1 == [s EXCEPT !.touch_maps = SubSeq(@, 1, s.selected_index)
                                            \o SubSeq(@, s.selected_index + 2, Len(@))]
             s2 == [s1 EXCEPT !.selected_index = IF Len(s1.touch_maps) > 0 THEN 0 ELSE -1]
         IN  UpdateUiDisplay(s2)

RenameMapping(s, new_name) ==
    IF new_name = "" THEN s
    ELSE [s EXCEPT !.touch_maps[s.selected_index + 1].name = new_name]

\* a click on ui->button_delete: a disabled button emits no clicked()
ButtonDeleteClicked(s, answer_yes) ==
    IF s.button_delete THEN DeleteMapping(s, answer_yes) ELSE s

ApplyConfiguration(s) == SaveCurrentMapping(s)

GetMaps(s) == s.touch_maps

GetSelectedIndex(s) == s.selected_index

(***************************************************************************)
(* ConfigureTouchFromButton: the capture of one input.                     *)
(***************************************************************************)
\* InputCommon::Polling::GetPollers(DeviceType::Button): the device sources, in list
\* order.  asked and answer record the poller's part in the latest poll tick:
\* whether GetNextInput was called on it, and what it returned.
GetPollers ==
    <<[source |-> 1, started |-> FALSE, asked |-> FALSE, answer |-> EmptyPackage],
      [source |-> 2, started |-> FALSE, asked |-> FALSE, answer |-> EmptyPackage]>>

\* the lambda as it would be if a cancelled new row were kept like an edited one
InputSetter_KeepsNewRow(s, row_index, is_new, params, cancel) ==
    IF row_index < 0 \/ row_index >= Len(s.rows) THEN s
    ELSE IF ~cancel
         THEN [s EXCEPT !.rows[row_index + 1].text = ButtonToText(params),
                        !.rows[row_index + 1].data = Serialize(params)]
    ELSE [s EXCEPT !.rows[row_index + 1].text =
                       ButtonToText(Parse(s.rows[row_index + 1].data))]

\* the lambda GetButtonInput stores in input_setter, called with (params, cancel)
InputSetter(s, row_index, is_new, params, cancel) ==
    IF row_index < 0 \/ row_index >= Len(s.rows) THEN s
    ELSE IF ~cancel
         THEN [s EXCEPT !.rows[row_index + 1].text = ButtonToText(params),
                        !.rows[row_index + 1].data = Serialize(params)]
    ELSE IF is_new THEN removeRows(s, row_index, 1)
    ELSE [s EXCEPT !.rows[row_index + 1].text =
                       ButtonToText(Parse(s.rows[row_index + 1].data))]

\* GetButtonInput as it would be without timeout_timer->start(5000)
GetButtonInput_NoTimeout(s, row_index, is_new) ==
    [s EXCEPT !.rows[row_index + 1].text = "[press key]",
              !.input_setter = [set |-> TRUE, row_index |-> row_index, is_new |-> is_new],
              !.device_pollers = [i \in 1..Len(GetPollers) |->
                                      [GetPollers[i] EXCEPT !.started = TRUE]],
              !.grab = [keyboard |-> TRUE, mouse |-> TRUE],
              !.poll_timer = TRUE,
              !.setter_calls = [started |-> TRUE, count |-> 0,
                                params |-> EmptyPackage, cancel |-> FALSE,
                                clean |-> FALSE]]

\* GetButtonInput as it would be without grabKeyboard() and grabMouse()
GetButtonInput_NoGrab(s, row_index, is_new) ==
    [s EXCEPT !.rows[row_index + 1].text = "[press key]",
              !.input_setter = [set |-> TRUE, row_index |-> row_index, is_new |-> is_new],
              !.device_pollers = [i \in 1..Len(GetPollers) |->
                                      [GetPollers[i] EXCEPT !.started = TRUE]],
              !.timeout_timer = TRUE,
              !.poll_timer = TRUE,
              !.setter_calls = [started |-> TRUE, count |-> 0,
                                params |-> EmptyPackage, cancel |-> FALSE,
                                clean |-> FALSE]]

\* GetButtonInput as it would be if it cleared the cell's data when the capture starts
GetButtonInput_ClearsData(s, row_index, is_new) ==
    [s EXCEPT !.rows[row_index + 1].text = "[press key]",
              !.rows[row_index + 1].data = <<>>,
              !.input_setter = [set |-> TRUE, row_index |-> row_index, is_new |-> is_new],
              !.device_pollers = [i \in 1..Len(GetPollers) |->
                                      [GetPollers[i] EXCEPT !.started = TRUE]],
              !.grab = [keyboard |-> TRUE, mouse |-> TRUE],
              !.timeout_timer = TRUE,
              !.poll_timer = TRUE,
              !.setter_calls = [started |-> TRUE, count |-> 0,
                                params |-> EmptyPackage, cancel |-> FALSE,
                                clean |-> FALSE]]

GetButtonInput(s, row_index, is_new) ==
    [s EXCEPT !.rows[row_index + 1].text = "[press key]",
              !.input_setter = [set |-> TRUE, row_index |-> row_index, is_new |-> is_new],
              !.device_pollers = [i \in 1..Len(GetPollers) |->
                                      [GetPollers[i] EXCEPT !.started = TRUE]],
              !.grab = [keyboard |-> TRUE, mouse |-> TRUE],
              !.timeout_timer = TRUE,
              !.poll_timer = TRUE,
              !.setter_calls = [started |-> TRUE, count |-> 0,
                                params |-> EmptyPackage, cancel |-> FALSE,
                                clean |-> FALSE]]

\* nothing of a capture is running: timers stopped, pollers stopped, grab released
Quiet(s) ==
    /\ ~s.timeout_timer
    /\ ~s.poll_timer
    /\ \A i \in 1..Len(s.device_pollers) : ~s.device_pollers[i].started
    /\ ~s.grab.keyboard
    /\ ~s.grab.mouse

\* SetPollingResult as it would be if it invoked input_setter before the cleanup
SetPollingResult_CallbackFirst(s, params, cancel) ==
    LET s1 == IF s.input_setter.set
              THEN [InputSetter(s, s.input_setter.row_index, s.input_setter.is_new,
                                params, cancel)
                       EXCEPT !.input_setter = NoSetter,
                              !.setter_calls = [@ EXCEPT !.count = @ + 1,
                                                         !.params = params,
                                                         !.cancel = cancel,
                                                         !.clean = Quiet(s)]]
              ELSE s
    IN  [s1 EXCEPT !.grab = [keyboard |-> FALSE, mouse |-> FALSE],
                   !.timeout_timer = FALSE,
                   !.poll_timer = FALSE,
                   !.device_pollers = [i \in 1..Len(@) |-> [@[i] EXCEPT !.started = FALSE]]]

\* SetPollingResult as it would be without the test `if (input_setter)`
SetPollingResult_Unguarded(s, params, cancel) ==
    LET s1 == [s EXCEPT !.grab = [keyboard |-> FALSE, mouse |-> FALSE],
                        !.timeout_timer = FALSE,
                        !.poll_timer = FALSE,
                        !.device_pollers = [i \in 1..Len(@) |-> [@[i] EXCEPT !.started = FALSE]]]
        s2 == InputSetter(s1, s1.input_setter.row_index, s1.input_setter.is_new,
                          params, cancel)
    IN  [s2 EXCEPT !.input_setter = NoSetter,
                   !.setter_calls = [@ EXCEPT !.count = @ + 1,
                                              !.params = params,
                                              !.cancel = cancel,
                                              !.clean = Quiet(s1)]]

\* SetPollingResult as it would be without input_setter.reset()
SetPollingResult_NoReset(s, params, cancel) ==
    LET s1 == [s EXCEPT !.grab = [keyboard |-> FALSE, mouse |-> FALSE],
                        !.timeout_timer = FALSE,
                        !.poll_timer = FALSE,
                        !.device_pollers = [i \in 1..Len(@) |-> [@[i] EXCEPT !.started = FALSE]]]
    IN  IF s1.input_setter.set
        THEN LET s2 == InputSetter(s1, s1.input_setter.row_index, s1.input_setter.is_new,
                                   params, cancel)
             IN  [s2 EXCEPT !.setter_calls = [@ EXCEPT !.count = @ + 1,
                                                       !.params = params,
                                                       !.cancel = cancel,
                                                       !.clean = Quiet(s1)]]
        ELSE s1

SetPollingResult(s, params, cancel) ==
    LET s1 == [s EXCEPT !.grab = [keyboard |-> FALSE, mouse |-> FALSE],
                        !.timeout_timer = FALSE,
                        !.poll_timer = FALSE,
                        !.device_pollers = [i \in 1..Len(@) |-> [@[i] EXCEPT !.started = FALSE]]]
    IN  IF s1.input_setter.set
        THEN LET s2 == InputSetter(s1, s1.input_setter.row_index, s1.input_setter.is_new,
                                   params, cancel)
             IN  [s2 EXCEPT !.input_setter = NoSetter,
                            !.setter_calls = [@ EXCEPT !.count = @ + 1,
                                                       !.params = params,
                                                       !.cancel = cancel,
                                                       !.clean = Quiet(s1)]]
        ELSE s1

\* the handler of timeout_timer's timeout()
TimeoutHandler(s) == SetPollingResult(s, EmptyPackage, TRUE)

\* the handler of poll_timer's timeout(), from poller i on; inputs[i] is what
\* GetNextInput of poller i returns in this tick
\* the loop of the poll handler as it would be if it asked every poller and the
\* last one with an input won
RECURSIVE PollHandlerFrom_LastWins(_, _, _)
PollHandlerFrom_LastWins(s, inputs, i) ==
    IF i > Len(s.device_pollers) THEN s
    ELSE LET s1 == [s EXCEPT !.device_pollers[i].asked = TRUE,
                             !.device_pollers[i].answer = inputs[i]]
             s2 == PollHandlerFrom_LastWins(s1, inputs, i + 1)
         IN  IF Has(inputs[i], "engine") /\ s2.input_setter.set
             THEN SetPollingResult(s2, inputs[i], FALSE)
             ELSE s2

RECURSIVE PollHandlerFrom(_, _, _)
PollHandlerFrom(s, inputs, i) ==
    IF i > Len(s.device_pollers) THEN s
    ELSE LET s1 == [s EXCEPT !.device_pollers[i].asked = TRUE,
                             !.device_pollers[i].answer = inputs[i]]
         IN  IF Has(inputs[i], "engine") THEN SetPollingResult(s1, inputs[i], FALSE)
             ELSE PollHandlerFrom(s1, inputs, i + 1)

\* a tick starts with no poller asked
PollHandler(s, inputs) ==
    PollHandlerFrom([s EXCEPT !.device_pollers =
                         [i \in 1..Len(@) |-> [@[i] EXCEPT !.asked = FALSE,
                                                           !.answer = EmptyPackage]]],
                    inputs, 1)

(***************************************************************************)
(* ConfigureTouchFromButton: binding rows.                                 *)
(***************************************************************************)
NewBinding(s, pos) ==
    LET s1 == AddDot(s, pos.x, pos.y)
        row == [text |-> "", data |-> <<>>,
                x |-> QStringNumber(pos.x), y |-> QStringNumber(pos.y),
                dot |-> s1.max_dot_id]
        s2 == setCurrentIndex([s1 EXCEPT !.rows = Append(@, row)], Len(s1.rows))
    IN  GetButtonInput(s2, Len(s2.rows) - 1, TRUE)

\* qi = (row, column) of the double-clicked cell
EditBinding(s, row, column) ==
    IF row >= 0 /\ column = 0 THEN GetButtonInput(s, row, FALSE) ELSE s

\* DeleteBinding as it would be without binding_list_model->removeRow(row_index)
DeleteBinding_DotOnly(s) ==
    LET row_index == s.current_row
    IN  IF row_index >= 0 THEN RemoveDot(s, s.rows[row_index + 1].dot) ELSE s

DeleteBinding(s) ==
    LET row_index == s.current_row
    IN  IF row_index >= 0
        THEN removeRows(RemoveDot(s, s.rows[row_index + 1].dot), row_index, 1)
        ELSE s

Clamp(v, lo, hi) == IF v < lo THEN lo ELSE IF v > hi THEN hi ELSE v

\* OnBindingChanged as it would be without ui->bottom_screen->MoveDot
OnBindingChanged_StaleDot(s, row, column) ==
    IF column = 0 THEN s
    ELSE IF column = 1
         THEN [s EXCEPT !.rows[row + 1].x =
                  QStringNumber(Clamp(ToInt(@, 0), 0, kScreenBottomWidth - 1))]
         ELSE [s EXCEPT !.rows[row + 1].y =
                  QStringNumber(Clamp(ToInt(@, 0), 0, kScreenBottomHeight - 1))]

\* OnBindingChanged as it would be without std::clamp
OnBindingChanged_NoClamp(s, row, column) ==
    IF column = 0 THEN s
    ELSE LET s1 == IF column = 1
                   THEN [s EXCEPT !.rows[row + 1].x = QStringNumber(ToInt(@, 0))]
                   ELSE [s EXCEPT !.rows[row + 1].y = QStringNumber(ToInt(@, 0))]
         IN  MoveDot(s1, s1.rows[row + 1].dot,
                     ToInt(s1.rows[row + 1].x, 0), ToInt(s1.rows[row + 1].y, 0))

\* item = the cell (row, column) whose text changed
OnBindingChanged(s, row, column) ==
    IF column = 0 THEN s
    ELSE LET s1 == IF column = 1
                   THEN [s EXCEPT !.rows[row + 1].x =
                            QStringNumber(Clamp(ToInt(@, 0), 0, kScreenBottomWidth - 1))]
                   ELSE [s EXCEPT !.rows[row + 1].y =
                            QStringNumber(Clamp(ToInt(@, 0), 0, kScreenBottomHeight - 1))]
         IN  MoveDot(s1, s1.rows[row + 1].dot,
                     ToInt(s1.rows[row + 1].x, 0), ToInt(s1.rows[row + 1].y, 0))

\* the user commits the text typed into a coordinate cell: itemChanged(item)
ItemEdited(s, row, column, text) ==
    IF column = 1 THEN OnBindingChanged([s EXCEPT !.rows[row + 1].x = text], row, column)
    ELSE OnBindingChanged([s EXCEPT !.rows[row + 1].y = text], row, column)

\* first row whose marker id is dot_id, -1 when there is none
RowOfDot(row_list, dot_id) ==
    IF \E i \in 1..Len(row_list) : row_list[i].dot = dot_id
    THEN (CHOOSE i \in 1..Len(row_list) :
              /\ row_list[i].dot = dot_id
              /\ \A j \in 1..(i - 1) : row_list[j].dot # dot_id) - 1
    ELSE -1

SetActiveBinding(s, dot_id) ==
    IF RowOfDot(s.rows, dot_id) >= 0
    THEN setCurrentIndex(s, RowOfDot(s.rows, dot_id))
    ELSE s

\* each setText emits itemChanged, which runs OnBindingChanged
SetCoordinates(s, dot_id, pos) ==
    LET i == RowOfDot(s.rows, dot_id)
    IN  IF i < 0 THEN s
        ELSE LET s1 == OnBindingChanged([s EXCEPT !.rows[i + 1].x = QStringNumber(pos.x)], i, 1)
             IN  OnBindingChanged([s1 EXCEPT !.rows[i + 1].y = QStringNumber(pos.y)], i, 2)

\* keyPressEvent as it would be if the Delete key were looked at before input_setter
keyPressEvent_DeleteFirst(s, key) ==
    IF key = Key_Delete THEN DeleteBinding(s)
    ELSE IF ~s.input_setter.set THEN s
    ELSE IF key # Key_Escape
         THEN SetPollingResult(s, Parse(GenerateKeyboardParam(key)), FALSE)
    ELSE SetPollingResult(s, EmptyPackage, TRUE)

\* keyPressEvent as it would be if a key resolved the capture with no descriptor
keyPressEvent_NoKeyboardParam(s, key) ==
    IF ~s.input_setter.set /\ key = Key_Delete THEN DeleteBinding(s)
    ELSE IF ~s.input_setter.set THEN s
    ELSE IF key # Key_Escape THEN SetPollingResult(s, EmptyPackage, FALSE)
    ELSE SetPollingResult(s, EmptyPackage, TRUE)

keyPressEvent(s, key) ==
    IF ~s.input_setter.set /\ key = Key_Delete THEN DeleteBinding(s)
    ELSE IF ~s.input_setter.set THEN s
    ELSE IF key # Key_Escape
         THEN SetPollingResult(s, Parse(GenerateKeyboardParam(key)), FALSE)
    ELSE SetPollingResult(s, EmptyPackage, TRUE)

(***************************************************************************)
(* TouchScreenPreview: pointer events.                                     *)
(***************************************************************************)
\* the geometry of the canvas while the editor is used: contentsRect() size,
\* contentsMargins() left/top, the size of a marker label
Canvas == [width |-> 320, height |-> 240, left |-> 1, top |-> 1, dot_w |-> 16, dot_h |-> 16]

\* a left-button press on the canvas at pixel (screen_x, screen_y): DotAdded is
\* connected to NewBinding
mousePressEventOn(canvas, s, screen_x, screen_y) ==
    LET pos == MapToDeviceCoords(canvas, screen_x, screen_y)
    IN  IF pos.valid THEN NewBinding(s, pos) ELSE s

mousePressEvent(s, screen_x, screen_y) == mousePressEventOn(Canvas, s, screen_x, screen_y)

\* eventFilter, MouseButtonPress with the left button on the marker with this id
DotMousePress(s, id) ==
    [SetActiveBinding(s, id) EXCEPT !.drag_state.dot = id]

\* eventFilter, MouseMove to pixel (screen_x, screen_y); far tells whether the
\* pointer is at least startDragDistance() away from where it was pressed
DotMouseMove(s, screen_x, screen_y, far) ==
    IF s.drag_state.dot = 0 THEN s
    ELSE IF ~s.drag_state.active /\ ~far THEN s
    ELSE LET s1 == [s EXCEPT !.drag_state.active = TRUE]
             device_coord ==
                 MapToDeviceCoords(Canvas,
                     Clamp(screen_x, Canvas.left, Canvas.left + Canvas.width),
                     Clamp(screen_y, Canvas.top, Canvas.top + Canvas.height))
         IN  IF device_coord.valid
             THEN SetCoordinates(MoveDot(s1, s1.drag_state.dot, device_coord.x, device_coord.y),
                                 s1.drag_state.dot, device_coord)
             ELSE s1

\* eventFilter, MouseButtonRelease
DotMouseRelease(s) == [s EXCEPT !.drag_state = NoDrag]

(***************************************************************************)
(* Construction.                                                           *)
(***************************************************************************)
KeyboardA_10_10 ==
    <<(<<"engine", "keyboard">>), (<<"code", "65">>), (<<"x", "10">>), (<<"y", "10">>)>>

\* a stored binding whose coordinates are outside the device
Button0_400_m5 ==
    <<(<<"engine", "sdl">>), (<<"button", "0">>), (<<"x", "400">>), (<<"y", "-5">>)>>

\* a stored text without an engine (one malformed piece, then coordinates)
Unbound_5_5 == <<(<<"junk">>), (<<"x", "5">>), (<<"y", "5">>)>>

\* the profile lists the dialog is constructed with
InitialMaps ==
    { <<[name |-> "default", buttons |-> <<KeyboardA_10_10>>],
        [name |-> "Custom", buttons |-> <<Button0_400_m5, Unbound_5_5>>]>> }

\* the constructor: SetConfiguration, UpdateUiDisplay, ConnectEvents
Constructor(maps, default_index) ==
    UpdateUiDisplay(
        [touch_maps |-> maps, selected_index |-> default_index,
         button_delete |-> TRUE, rows |-> <<>>, current_row |-> -1,
         selected_row |-> -1, highlighted |-> {}, button_delete_bind |-> TRUE,
         dots |-> <<>>, max_dot_id |-> 0, drag_state |-> NoDrag,
         input_setter |-> NoSetter, timeout_timer |-> FALSE, poll_timer |-> FALSE,
         device_pollers |-> <<>>, grab |-> [keyboard |-> FALSE, mouse |-> FALSE],
         setter_calls |-> NoCalls])

\* the variables take the fields of the record s
Becomes(s) ==
    /\ touch_maps' = s.touch_maps
    /\ selected_index' = s.selected_index
    /\ button_delete' = s.button_delete
    /\ rows' = s.rows
    /\ current_row' = s.current_row
    /\ selected_row' = s.selected_row
    /\ highlighted' = s.highlighted
    /\ button_delete_bind' = s.button_delete_bind
    /\ dots' = s.dots
    /\ max_dot_id' = s.max_dot_id
    /\ drag_state' = s.drag_state
    /\ input_setter' = s.input_setter
    /\ timeout_timer' = s.timeout_timer
    /\ poll_timer' = s.poll_timer
    /\ device_pollers' = s.device_pollers
    /\ grab' = s.grab
    /\ setter_calls' = s.setter_calls

NoProbe == [phase |-> "off"]

\* the editor right after construction
InitEditor ==
    /\ \E maps \in InitialMaps : \E default_index \in 0..(Len(maps) - 1) :
         LET s == Constructor(maps, default_index)
         IN  /\ touch_maps = s.touch_maps
             /\ selected_index = s.selected_index
             /\ button_delete = s.button_delete
             /\ rows = s.rows
             /\ current_row = s.current_row
             /\ selected_row = s.selected_row
             /\ highlighted = s.highlighted
             /\ button_delete_bind = s.button_delete_bind
             /\ dots = s.dots
             /\ max_dot_id = s.max_dot_id
             /\ drag_state = s.drag_state
             /\ input_setter = s.input_setter
             /\ timeout_timer = s.timeout_timer
             /\ poll_timer = s.poll_timer
             /\ device_pollers = s.device_pollers
             /\ grab = s.grab
             /\ setter_calls = s.setter_calls
    /\ event = [handler |-> "constructor", changed |-> TRUE]
    /\ user_events = 0

Init ==
    /\ InitEditor
    /\ probe = NoProbe

(***************************************************************************)
(* Actions: one per event the dialog or the canvas handles.  A handler     *)
(* runs only while the model's bounds hold in the state it leaves.  While  *)
(* the dialog holds the mouse and keyboard grab no other widget receives   *)
(* pointer or key events.                                                  *)
(***************************************************************************)
WithinBounds(s) ==
    /\ Len(s.touch_maps) <= MaxProfiles
    /\ Len(s.rows) <= MaxRows

\* the handler's result s becomes the state (it is computed once, as next)
Handled(s, name) ==
    \E next \in {s} :
        /\ WithinBounds(next)
        /\ IF input_setter.set \/ next = State
           THEN UNCHANGED user_events
           ELSE user_events < MaxUserEvents /\ user_events' = user_events + 1
        /\ Becomes(next)
        /\ event' = [handler |-> name, changed |-> next # State]
        /\ UNCHANGED probe

Ungrabbed == ~grab.mouse /\ ~grab.keyboard

\* from the press on a marker to the release the pointer belongs to that marker
PointerFree == Ungrabbed /\ drag_state.dot = 0

\* names the user may type for a profile ("" is a cancelled or empty input)
Names == {"", "Custom"}

\* pixels the user may press on the canvas: in the margin, and on device point (10, 10)
PressPixels == {<<0, 0>>, <<11, 11>>}

\* pixels a marker may be dragged to: right of and above the canvas
DragPixels == {<<1000, -50>>}

\* texts the user may type into a coordinate cell
CellTexts == {"-5", "400"}

\* keys the user may press
Keys == {Key_Escape, Key_Delete}

\* what poller number source may report in one tick: nothing, or its button
PollerInputs(source) ==
    {EmptyPackage,
     Parse(<<(<<"engine", "sdl">>), (<<"button", QStringNumber(source - 1)>>)>>)}

MappingActivatedStep ==
    /\ PointerFree
    /\ \E index \in 0..(Len(touch_maps) - 1) :
         Handled(MappingActivated(State, index), "mapping.activated")

NewMappingStep ==
    /\ PointerFree
    /\ \E name \in Names : Handled(NewMapping(State, name), "button_new.clicked")

ButtonDeleteStep ==
    /\ PointerFree
    /\ \E answer_yes \in BOOLEAN :
         Handled(ButtonDeleteClicked(State, answer_yes), "button_delete.clicked")

RenameMappingStep ==
    /\ PointerFree
    /\ \E new_name \in Names : Handled(RenameMapping(State, new_name), "button_rename.clicked")

ApplyConfigurationStep ==
    /\ PointerFree
    /\ Handled(ApplyConfiguration(State), "buttonBox.accepted")

MousePressStep ==
    /\ PointerFree
    /\ \E pixel \in PressPixels :
         Handled(mousePressEvent(State, pixel[1], pixel[2]), "bottom_screen.mousePress")

DotPressStep ==
    /\ PointerFree
    /\ \E i \in 1..Len(dots) : Handled(DotMousePress(State, dots[i].id), "dot.mousePress")

DotMoveStep ==
    /\ Ungrabbed
    /\ \E pixel \in DragPixels : \E far \in BOOLEAN :
         Handled(DotMouseMove(State, pixel[1], pixel[2], far), "dot.mouseMove")

DotReleaseStep ==
    /\ Ungrabbed
    /\ Handled(DotMouseRelease(State), "dot.mouseRelease")

RowClickedStep ==
    /\ PointerFree
    /\ \E row \in 0..(Len(rows) - 1) :
         Handled(setCurrentIndex(State, row), "binding_list.clicked")

RowToggledStep ==
    /\ PointerFree
    /\ selected_row >= 0
    /\ Handled(ToggleSelectedRow(State), "binding_list.ctrlClicked")

EditBindingStep ==
    /\ PointerFree
    /\ \E row \in 0..(Len(rows) - 1) : \E column \in {0, 1} :
         Handled(EditBinding(State, row, column), "binding_list.doubleClicked")

\* a disabled button emits no clicked()
DeleteBindingStep ==
    /\ PointerFree
    /\ button_delete_bind
    /\ Handled(DeleteBinding(State), "button_delete_bind.clicked")

ItemEditedStep ==
    /\ PointerFree
    /\ \E row \in 0..(Len(rows) - 1) : \E column \in {1, 2} : \E text \in CellTexts :
         Handled(ItemEdited(State, row, column, text), "binding_list_model.itemChanged")

KeyPressStep ==
    \E key \in Keys : Handled(keyPressEvent(State, key), "keyPressEvent")

\* a mouse press, anywhere, while the dialog holds the mouse grab: it is delivered
\* to the dialog, which handles no mouse event
GrabbedPressStep ==
    /\ grab.mouse
    /\ Handled(State, "dialog.mousePress")

TimeoutStep ==
    /\ timeout_timer
    /\ Handled(TimeoutHandler(State), "timeout_timer.timeout")

PollStep ==
    /\ poll_timer
    /\ \E inputs \in [1..Len(device_pollers) -> UNION {PollerInputs(k) : k \in 1..Len(GetPollers)}] :
         /\ \A i \in 1..Len(device_pollers) : inputs[i] \in PollerInputs(device_pollers[i].source)
         /\ Handled(PollHandler(State, inputs), "poll_timer.timeout")

Next ==
    \/ MappingActivatedStep
    \/ NewMappingStep
    \/ ButtonDeleteStep
    \/ RenameMappingStep
    \/ ApplyConfigurationStep
    \/ MousePressStep
    \/ DotPressStep
    \/ DotMoveStep
    \/ DotReleaseStep
    \/ RowClickedStep
    \/ RowToggledStep
    \/ EditBindingStep
    \/ DeleteBindingStep
    \/ ItemEditedStep
    \/ KeyPressStep
    \/ GrabbedPressStep
    \/ TimeoutStep
    \/ PollStep

Spec == Init /\ [][Next]_vars

\* The events around a capture: those that start one (a press on the canvas, a
\* double click on a row) and those that arrive during one (keys, mouse presses,
\* the two timers).
CaptureNext ==
    \/ MousePressStep
    \/ EditBindingStep
    \/ KeyPressStep
    \/ GrabbedPressStep
    \/ TimeoutStep
    \/ PollStep

\* timeout_timer is armed for 5000 ms at the start of a capture: once armed it fires
FairSpec == Init /\ [][CaptureNext]_vars /\ WF_vars(TimeoutStep)

(***************************************************************************)
(* The coordinate mapping on its own: a device point is placed by          *)
(* PositionDot on a canvas of some size, and the pixel at the centre of    *)
(* the marker is mapped back by MapToDeviceCoords.                         *)
(***************************************************************************)
\* canvases probed: content as large as the device screen, and twice as large
ProbeCanvases ==
    { [width |-> 320, height |-> 240, left |-> 1, top |-> 1, dot_w |-> 16, dot_h |-> 16],
      [width |-> 640, height |-> 480, left |-> 1, top |-> 1, dot_w |-> 16, dot_h |-> 16] }

\* device points probed: every x on three lines, every y on three columns
ProbePoints ==
    ((0..(kScreenBottomWidth - 1)) \X {0, 120, kScreenBottomHeight - 1})
    \cup ({0, 160, kScreenBottomWidth - 1} \X (0..(kScreenBottomHeight - 1)))

MapInit ==
    /\ InitEditor
    /\ selected_index = 0
    /\ \E canvas \in ProbeCanvases : \E point \in ProbePoints :
         probe = [phase |-> "device", canvas |-> canvas, x |-> point[1], y |-> point[2],
                  pixel |-> [x |-> 0, y |-> 0], mapped |-> NoPoint]

ProbePositionStep ==
    /\ probe.phase = "device"
    /\ probe' = [probe EXCEPT !.phase = "pixel",
                              !.pixel = DotCentre(probe.canvas, probe.x, probe.y)]
    /\ UNCHANGED editor_vars

ProbeMapStep ==
    /\ probe.phase = "pixel"
    /\ probe' = [probe EXCEPT !.phase = "mapped",
                              !.mapped = MapToDeviceCoords(probe.canvas,
                                                           probe.pixel.x, probe.pixel.y)]
    /\ UNCHANGED editor_vars

MapNext == ProbePositionStep \/ ProbeMapStep

MapSpec == MapInit /\ [][MapNext]_vars

(***************************************************************************)
(* The edit of one coordinate cell on its own: the user types an integer   *)
(* into the x or y cell of a row of the editor as constructed, and         *)
(* itemChanged runs OnBindingChanged.                                      *)
(***************************************************************************)
\* integers typed into a cell: from below 0 to beyond both device sizes
RawValues == -5 .. (kScreenBottomWidth + 100)

EditInit ==
    /\ InitEditor
    /\ \E row \in 0..(Len(rows) - 1) : \E column \in {1, 2} : \E raw \in RawValues :
         probe = [phase |-> "typed", row |-> row, column |-> column, raw |-> raw]

EditCellStep ==
    /\ probe.phase = "typed"
    /\ \E next \in {ItemEdited(State, probe.row, probe.column, QStringNumber(probe.raw))} :
         /\ Becomes(next)
         /\ event' = [handler |-> "binding_list_model.itemChanged", changed |-> next # State]
    /\ probe' = [probe EXCEPT !.phase = "edited"]
    /\ UNCHANGED user_events

EditNext == EditCellStep

EditSpec == EditInit /\ [][EditNext]_vars

(***************************************************************************)
(* One new binding from start to commit: a profile is created, NewBinding  *)
(* is called with a device point, a key is pressed during the capture, and *)
(* the dialog is accepted.                                                 *)
(***************************************************************************)
\* device points NewBinding is called with: the corners, and (10, 10)
ScenarioPoints == {0, 10, kScreenBottomWidth - 1} \X {0, 10, kScreenBottomHeight - 1}

\* keys pressed during the capture, none of them Escape
ScenarioKeys == {Key_A, Key_Delete}

\* a handler run as a step of a scenario: its result s becomes the state
Run(s, name) ==
    \E next \in {s} :
        /\ Becomes(next)
        /\ event' = [handler |-> name, changed |-> next # State]
        /\ UNCHANGED user_events

ScenarioInit ==
    /\ InitEditor
    /\ \E point \in ScenarioPoints : \E key \in ScenarioKeys :
         probe = [phase |-> "start", x |-> point[1], y |-> point[2], key |-> key]

CreateProfileStep ==
    /\ probe.phase = "start"
    /\ Run(NewMapping(State, "Custom"), "button_new.clicked")
    /\ probe' = [probe EXCEPT !.phase = "created"]

AddBindingStep ==
    /\ probe.phase = "created"
    /\ Run(NewBinding(State, Point(probe.x, probe.y)), "bottom_screen.DotAdded")
    /\ probe' = [probe EXCEPT !.phase = "capturing"]

PressKeyStep ==
    /\ probe.phase = "capturing"
    /\ Run(keyPressEvent(State, probe.key), "keyPressEvent")
    /\ probe' = [probe EXCEPT !.phase = "resolved"]

CommitStep ==
    /\ probe.phase = "resolved"
    /\ Run(ApplyConfiguration(State), "buttonBox.accepted")
    /\ probe' = [probe EXCEPT !.phase = "committed"]

ScenarioNext ==
    \/ CreateProfileStep
    \/ AddBindingStep
    \/ PressKeyStep
    \/ CommitStep

ScenarioSpec == ScenarioInit /\ [][ScenarioNext]_vars

(***************************************************************************)
(* One key press: a row is made the current one (or none is), a capture is *)
(* started for a new binding, or for that row, or not at all, and a key is *)
(* pressed.                                                                *)
(***************************************************************************)
\* keys pressed: a letter, Escape, Delete
PressedKeys == {Key_A, Key_Escape, Key_Delete}

\* what precedes the key press: no capture, NewBinding, EditBinding
CaptureKinds == {"none", "new", "edit"}

KeyInit ==
    /\ InitEditor
    /\ \E key \in PressedKeys : \E kind \in CaptureKinds : \E row \in -1..(Len(rows) - 1) :
         probe = [phase |-> "start", key |-> key, kind |-> kind, row |-> row]

\* the row probe.row is clicked (no row when it is -1)
SelectRowStep ==
    /\ probe.phase = "start"
    /\ Run(setCurrentIndex(State, probe.row), "binding_list.clicked")
    /\ probe' = [probe EXCEPT !.phase = "selected"]

StartCaptureStep ==
    /\ probe.phase = "selected"
    /\ Run(CASE probe.kind = "new" -> NewBinding(State, Point(10, 10))
              [] probe.kind = "edit" -> EditBinding(State, probe.row, 0)
              [] OTHER -> State,
           "capture")
    /\ probe' = [probe EXCEPT !.phase = "ready"]

KeyStep ==
    /\ probe.phase = "ready"
    /\ Run(keyPressEvent(State, probe.key), "keyPressEvent")
    /\ probe' = [probe EXCEPT !.phase = "pressed"]

KeyNext ==
    \/ SelectRowStep
    \/ StartCaptureStep
    \/ KeyStep

KeySpec == KeyInit /\ [][KeyNext]_vars

(***************************************************************************)
(* A timer handler run after the end of a capture: a capture is started    *)
(* for a new binding or for row 0, it is ended by a key, by Escape, by the *)
(* timeout or by a poller, and then the timeout handler or the poll        *)
(* handler runs once more.                                                 *)
(***************************************************************************)
\* how the capture ends
Endings == {"key", "escape", "timeout", "poll"}

\* the handler that runs afterwards
LateTicks == {"timeout", "poll"}

\* what the two pollers answer when they are asked
LateInputs ==
    {inputs \in [1..Len(GetPollers) -> UNION {PollerInputs(k) : k \in 1..Len(GetPollers)}] :
        \A i \in 1..Len(GetPollers) : inputs[i] \in PollerInputs(GetPollers[i].source)}

LateInit ==
    /\ InitEditor
    /\ \E kind \in {"new", "edit"} : \E ending \in Endings :
       \E tick \in LateTicks : \E inputs \in LateInputs :
         probe = [phase |-> "begin", kind |-> kind, ending |-> ending,
                  tick |-> tick, inputs |-> inputs]

BeginCaptureStep ==
    /\ probe.phase = "begin"
    /\ Run(IF probe.kind = "new" THEN NewBinding(State, Point(10, 10))
           ELSE EditBinding(State, 0, 0),
           "capture")
    /\ probe' = [probe EXCEPT !.phase = "capturing"]

EndCaptureStep ==
    /\ probe.phase = "capturing"
    /\ Run(CASE probe.ending = "key" -> keyPressEvent(State, Key_A)
              [] probe.ending = "escape" -> keyPressEvent(State, Key_Escape)
              [] probe.ending = "timeout" -> TimeoutHandler(State)
              [] OTHER -> PollHandler(State, [i \in 1..Len(GetPollers) |->
                              Parse(<<(<<"engine", "sdl">>), (<<"button", "7">>)>>)]),
           "end")
    /\ probe' = [probe EXCEPT !.phase = "ended"]

LateTickStep ==
    /\ probe.phase = "ended"
    /\ Run(IF probe.tick = "timeout" THEN TimeoutHandler(State)
           ELSE PollHandler(State, probe.inputs),
           "late tick")
    /\ probe' = [probe EXCEPT !.phase = "late"]

LateNext ==
    \/ BeginCaptureStep
    \/ EndCaptureStep
    \/ LateTickStep

LateSpec == LateInit /\ [][LateNext]_vars

(***************************************************************************)
(* A pointer press on its own: MapToDeviceCoords maps one pixel of a       *)
(* canvas of some size, and a left-button press at that pixel reaches the  *)
(* editor as constructed.                                                  *)
(***************************************************************************)
\* content sizes probed: one pixel, smaller than, equal to, not a multiple of
\* and twice the device screen
PixelSizes == { <<1, 1>>, <<100, 75>>, <<320, 240>>, <<333, 250>>, <<640, 480>> }

\* contentsMargins() left and top probed
PixelMargins == { <<0, 0>>, <<3, 2>> }

\* how far beyond the content rectangle, on each side, pixels are probed
PixelReach == 4

\* pixels probed on a canvas: every x on some lines, every y on some columns,
\* from PixelReach before the margin to PixelReach beyond the far edge
PixelPoints(canvas) ==
    LET xs == (-PixelReach)..(canvas.left + canvas.width + PixelReach)
        ys == (-PixelReach)..(canvas.top + canvas.height + PixelReach)
    IN  (xs \X {-1, 0, canvas.top, canvas.top + canvas.height \div 2,
                canvas.top + canvas.height - 1, canvas.top + canvas.height + 1})
        \cup ({-1, 0, canvas.left, canvas.left + canvas.width \div 2,
               canvas.left + canvas.width - 1, canvas.left + canvas.width + 1} \X ys)

PixelInit ==
    /\ InitEditor
    /\ selected_index = 0
    /\ \E size \in PixelSizes : \E margin \in PixelMargins :
         LET canvas == [width |-> size[1], height |-> size[2],
                        left |-> margin[1], top |-> margin[2],
                        dot_w |-> 16, dot_h |-> 16]
         IN  \E pixel \in PixelPoints(canvas) :
                 probe = [phase |-> "pixel", canvas |-> canvas,
                          x |-> pixel[1], y |-> pixel[2], mapped |-> NoPoint]

PixelMapStep ==
    /\ probe.phase = "pixel"
    /\ probe' = [probe EXCEPT !.phase = "mapped",
                              !.mapped = MapToDeviceCoords(probe.canvas, probe.x, probe.y)]
    /\ UNCHANGED editor_vars

PixelPressStep ==
    /\ probe.phase = "mapped"
    /\ Run(mousePressEventOn(probe.canvas, State, probe.x, probe.y),
           "bottom_screen.mousePress")
    /\ probe' = [probe EXCEPT !.phase = "pressed"]

PixelNext == PixelMapStep \/ PixelPressStep

PixelSpec == PixelInit /\ [][PixelNext]_vars

(***************************************************************************)
(* Properties.                                                             *)
(***************************************************************************)

\* C1: the completion callback of a capture is invoked at most once, each
\* invocation carries either a descriptor with an engine and cancel = false or
\* no descriptor and cancel = true, and it is never invoked before a capture
\* was started.
C1_CallbackAtMostOnce ==
    /\ setter_calls.count <= 1
    /\ setter_calls.count = 1 =>
          \/ ~setter_calls.cancel /\ Has(setter_calls.params, "engine")
          \/ setter_calls.cancel /\ DOMAIN setter_calls.params = {}
    /\ ~setter_calls.started => setter_calls.count = 0

\* a capture resolved by a key press, and one cancelled by Escape
C1_ResolvedByKey ==
    /\ event.handler = "keyPressEvent"
    /\ setter_calls.count = 1
    /\ ~setter_calls.cancel
    /\ GetStr(setter_calls.params, "engine", "") = "keyboard"

\* C2: under fairness of the timeout timer, a capture that was started ends with
\* its callback invoked once, and when it is the timeout that ends it the capture
\* is cancelled with no descriptor.
C2_CaptureEnds ==
    input_setter.set ~>
        /\ ~input_setter.set
        /\ setter_calls.count = 1
        /\ event.handler = "timeout_timer.timeout"
              => setter_calls.cancel /\ DOMAIN setter_calls.params = {}

C2_TimedOut ==
    /\ event.handler = "timeout_timer.timeout"
    /\ ~input_setter.set
    /\ setter_calls.count = 1
    /\ setter_calls.cancel

\* C3: the markers on the canvas and the binding rows are in bijection through
\* the marker id stored in each row.
C3_MarkersMatchRows ==
    /\ Len(dots) = Len(rows)
    /\ \A i \in 1..Len(rows) : Cardinality({j \in 1..Len(dots) : dots[j].id = rows[i].dot}) = 1
    /\ \A j \in 1..Len(dots) : Cardinality({i \in 1..Len(rows) : rows[i].dot = dots[j].id}) = 1

\* a new binding was cancelled while another row is shown, after markers were
\* removed and created again
C3_CancelledBesideRow ==
    /\ setter_calls.count = 1
    /\ setter_calls.cancel
    /\ Len(rows) >= 1
    /\ max_dot_id > Len(dots) + 1


\* C4: the profile list is never empty, and a click on the delete-profile
\* button while exactly one profile remains leaves the profiles, their bindings
\* and selected_index unchanged.
C4_LastProfileKept ==
    /\ [](Len(touch_maps) >= 1)
    /\ [][(event'.handler = "button_delete.clicked" /\ Len(touch_maps) = 1)
            => (touch_maps' = touch_maps /\ selected_index' = selected_index)]_vars

\* the delete-profile button was clicked on a store of one profile, to no effect
C4_DeleteRefused ==
    /\ event = [handler |-> "button_delete.clicked", changed |-> FALSE]
    /\ Len(touch_maps) = 1
    /\ ~button_delete

\* C5: selected_index always names a profile of the store.
C5_SelectedIndexValid ==
    0 <= selected_index /\ selected_index < Len(touch_maps)

\* a new profile was created and is the selected, last one
C5_NewProfileSelected ==
    /\ event.handler = "button_new.clicked"
    /\ event.changed
    /\ Len(touch_maps) = 3
    /\ selected_index = 2

\* C6: with two or more profiles the delete-profile button is enabled, and a
\* confirmed delete removes exactly the selected profile, keeps the others as
\* they are and in order, selects profile 0, and disables the button when one
\* profile is left.
C6_DeleteRemovesSelected ==
    /\ [](Len(touch_maps) >= 2 => button_delete)
    /\ [][(event'.handler = "button_delete.clicked" /\ event'.changed)
            => /\ Len(touch_maps) >= 2
               /\ touch_maps' = SubSeq(touch_maps, 1, selected_index)
                                 \o SubSeq(touch_maps, selected_index + 2, Len(touch_maps))
               /\ selected_index' = 0
               /\ Len(touch_maps') = 1 => ~button_delete']_vars

\* of two profiles the second one, selected, was deleted
C6_SecondOfTwoDeleted ==
    /\ event = [handler |-> "button_delete.clicked", changed |-> TRUE]
    /\ Len(touch_maps) = 1
    /\ touch_maps[1].name = "default"
    /\ selected_index = 0
    /\ user_events = 1

\* C7: whenever another profile becomes the selected one, by a selection in the
\* list or by the creation of a profile, the bound rows of the editor have been
\* written into the profile that was selected before.
C7_EditsSavedOnSwitch ==
    [][(/\ event'.handler \in {"mapping.activated", "button_new.clicked"}
        /\ selected_index' # selected_index)
        => touch_maps'[selected_index + 1].buttons = SavedButtons(rows, 0)]_vars

\* C8: after the commit the selected profile holds, in row order, one binding per
\* row whose descriptor has an engine, with the keys of that descriptor and the
\* numbers of the row's coordinate cells as x and y; the rows, the other
\* profiles and all names are as before.
C8_CommitWritesRows ==
    [][event'.handler = "buttonBox.accepted"
        => LET bound == SelectSeq(rows, LAMBDA r : Has(Parse(r.data), "engine"))
               saved == GetMaps(State)'[selected_index + 1].buttons
           IN  /\ rows' = rows
               /\ selected_index' = selected_index
               /\ Len(touch_maps') = Len(touch_maps)
               /\ \A i \in 1..Len(touch_maps) :
                     /\ touch_maps'[i].name = touch_maps[i].name
                     /\ i # selected_index + 1 => touch_maps'[i] = touch_maps[i]
               /\ Len(saved) = Len(bound)
               /\ \A k \in 1..Len(bound) :
                     LET written == Parse(saved[k])
                         descriptor == Parse(bound[k].data)
                     IN  /\ DOMAIN written = (DOMAIN descriptor) \cup {"x", "y"}
                         /\ \A key \in (DOMAIN descriptor) \ {"x", "y"} :
                               written[key] = descriptor[key]
                         /\ written["x"] = QStringNumber(ToInt(bound[k].x, 0))
                         /\ written["y"] = QStringNumber(ToInt(bound[k].y, 0))]_vars

\* the commit wrote a row whose coordinates had been changed in the editor
C8_CommittedEdit ==
    /\ event = [handler |-> "buttonBox.accepted", changed |-> TRUE]
    /\ Len(rows) >= 1
    /\ Len(touch_maps[selected_index + 1].buttons) >= 1

\* C9: a device point placed by PositionDot on a canvas at least as large as the
\* device screen is mapped back by MapToDeviceCoords, from the centre of its
\* marker, to the same device point.
C9_RoundTrip ==
    probe.phase = "mapped" => probe.mapped = Point(probe.x, probe.y)

\* C10: every binding row has coordinates inside the device screen, and so has
\* every binding the editor writes to the store.
C10_CoordinatesInRange ==
    /\ [](\A i \in 1..Len(rows) :
            /\ 0 <= ToInt(rows[i].x, 0) /\ ToInt(rows[i].x, 0) < kScreenBottomWidth
            /\ 0 <= ToInt(rows[i].y, 0) /\ ToInt(rows[i].y, 0) < kScreenBottomHeight)
    /\ [][\A i \in 1..Len(touch_maps') :
            \A k \in 1..Len(touch_maps'[i].buttons) :
                LET written == touch_maps'[i].buttons[k]
                IN  (\A j \in 1..Len(touch_maps) :
                        \A m \in 1..Len(touch_maps[j].buttons) :
                            touch_maps[j].buttons[m] # written)
                    => /\ 0 <= GetInt(Parse(written), "x", 0)
                       /\ GetInt(Parse(written), "x", 0) < kScreenBottomWidth
                       /\ 0 <= GetInt(Parse(written), "y", 0)
                       /\ GetInt(Parse(written), "y", 0) < kScreenBottomHeight]_vars

\* C11: after the edit of a coordinate cell with the integer raw, the x cell
\* holds min(max(raw, 0), W-1) and the y cell holds min(max(raw, 0), H-1).
C11_ClampedValueStored ==
    probe.phase = "edited"
        => LET limit == IF probe.column = 1 THEN kScreenBottomWidth - 1
                        ELSE kScreenBottomHeight - 1
               expected == IF probe.raw < 0 THEN 0
                           ELSE IF probe.raw > limit THEN limit ELSE probe.raw
               cell == IF probe.column = 1 THEN rows[probe.row + 1].x
                       ELSE rows[probe.row + 1].y
           IN  cell = QStringNumber(expected)

\* W+100 was typed into an x cell, which now holds W-1
C11_BeyondWidthClamped ==
    /\ probe.phase = "edited"
    /\ probe.column = 1
    /\ probe.raw = kScreenBottomWidth + 100
    /\ rows[probe.row + 1].x = QStringNumber(kScreenBottomWidth - 1)


\* C12: a press on the canvas appends one row and one marker and starts the
\* capture of a new binding; nothing changes while the capture waits; when the
\* capture is cancelled, by Escape or by the timeout, the appended row and
\* marker are removed, so that the rows and the markers are those from before
\* the press.
C12_CancelledNewBindingRemoved ==
    /\ [][(event'.handler = "bottom_screen.mousePress" /\ event'.changed)
            => /\ ~input_setter.set
               /\ input_setter' = [set |-> TRUE, row_index |-> Len(rows), is_new |-> TRUE]
               /\ Len(rows') = Len(rows) + 1
               /\ SubSeq(rows', 1, Len(rows)) = rows
               /\ Len(dots') = Len(dots) + 1
               /\ SubSeq(dots', 1, Len(dots)) = dots
               /\ rows'[Len(rows')].dot = dots'[Len(dots')].id]_vars
    /\ [][(input_setter.set /\ input_setter'.set) => (rows' = rows /\ dots' = dots)]_vars
    /\ [][(input_setter.set /\ input_setter.is_new /\ setter_calls'.cancel)
            => /\ event'.handler \in {"keyPressEvent", "timeout_timer.timeout"}
               /\ ~input_setter'.set
               /\ rows' = SubSeq(rows, 1, Len(rows) - 1)
               /\ dots' = SubSeq(dots, 1, Len(dots) - 1)]_vars

\* the capture of a new binding beside an existing row ended by the timeout
C12_NewBindingTimedOut ==
    /\ event.handler = "timeout_timer.timeout"
    /\ setter_calls.cancel
    /\ user_events = 1
    /\ max_dot_id = Len(dots) + 1
    /\ Len(rows) = 1


\* C13: a profile is created, NewBinding is called with an in-range point (x, y),
\* a key other than Escape is pressed during the capture; once committed the
\* created profile holds exactly one binding, with engine "keyboard", the code
\* of the key, and the coordinates x and y.
C13_KeyboardBindingCommitted ==
    probe.phase = "committed"
        => LET profile == GetMaps(State)[GetSelectedIndex(State) + 1]
           IN  /\ GetSelectedIndex(State) = Len(GetMaps(State)) - 1
               /\ profile.name = "Custom"
               /\ Len(profile.buttons) = 1
               /\ GetStr(Parse(profile.buttons[1]), "engine", "") = "keyboard"
               /\ GetInt(Parse(profile.buttons[1]), "code", 0) = probe.key
               /\ GetStr(Parse(profile.buttons[1]), "x", "") = QStringNumber(probe.x)
               /\ GetStr(Parse(profile.buttons[1]), "y", "") = QStringNumber(probe.y)

\* the binding at (10, 10) resolved by a key is in the committed profile
C13_BindingAt10_10 ==
    /\ probe.phase = "committed"
    /\ probe.x = 10
    /\ probe.y = 10
    /\ Len(touch_maps[selected_index + 1].buttons) = 1
    /\ Len(rows) = 1
    /\ rows[1].x = "10"
    /\ rows[1].y = "10"


\* C14: a double click on a row starts a capture that creates and removes no
\* marker and no row and changes no coordinate; while the capture waits, the
\* row still holds its previous descriptor; when the capture is resolved only
\* the descriptor (and its display text) of that row is replaced, by the
\* resolved one; when it is cancelled every row is as before the double click.
C14_EditBindingFrame ==
    /\ [][(event'.handler = "binding_list.doubleClicked" /\ event'.changed)
            => /\ input_setter'.set /\ ~input_setter'.is_new
               /\ input_setter'.row_index \in 0..(Len(rows) - 1)
               /\ dots' = dots
               /\ rows' = [rows EXCEPT ![input_setter'.row_index + 1].text = "[press key]"]]_vars
    /\ [][(input_setter.set /\ ~input_setter.is_new /\ input_setter'.set)
            => (rows' = rows /\ dots' = dots)]_vars
    /\ [][(input_setter.set /\ ~input_setter.is_new /\ ~input_setter'.set)
            => LET r == input_setter.row_index + 1
               IN  /\ dots' = dots
                   /\ Len(rows') = Len(rows)
                   /\ \A i \in 1..Len(rows) : i # r => rows'[i] = rows[i]
                   /\ rows'[r].x = rows[r].x
                   /\ rows'[r].y = rows[r].y
                   /\ rows'[r].dot = rows[r].dot
                   /\ IF setter_calls'.cancel
                      THEN /\ rows'[r].data = rows[r].data
                           /\ rows'[r].text = ButtonToText(Parse(rows[r].data))
                      ELSE /\ Parse(rows'[r].data) = setter_calls'.params
                           /\ Has(Parse(rows'[r].data), "engine")]_vars

\* the capture started by a double click on a row was cancelled by Escape
C14_EditCancelled ==
    /\ event.handler = "keyPressEvent"
    /\ setter_calls.count = 1
    /\ setter_calls.cancel
    /\ user_events = 1
    /\ max_dot_id = Len(dots)
    /\ Len(rows) >= 1


\* C15: at most one capture is active at a time: while a capture is active no
\* press on the canvas and no double click on a row starts another one, a
\* capture starts only when every earlier one has had its callback, and a
\* capture that is no longer active has had its callback.
C15_OneCaptureAtATime ==
    /\ [][input_setter.set
            => ~(/\ event'.handler \in {"bottom_screen.mousePress", "binding_list.doubleClicked"}
                 /\ event'.changed)]_vars
    /\ [][(input_setter.set /\ input_setter'.set)
            => (input_setter' = input_setter /\ setter_calls' = setter_calls)]_vars
    /\ [][(~input_setter.set /\ input_setter'.set)
            => /\ setter_calls.started => setter_calls.count = 1
               /\ setter_calls'.count = 0
               /\ timeout_timer' /\ poll_timer']_vars
    /\ []((setter_calls.started /\ ~input_setter.set) => setter_calls.count = 1)

\* the mouse was pressed during a capture, which is still the one waiting
C15_PressDuringCapture ==
    /\ event.handler = "dialog.mousePress"
    /\ input_setter.set
    /\ setter_calls.started
    /\ setter_calls.count = 0
    /\ grab.mouse


\* C16: whenever no capture is active both timers are stopped, every poller
\* started for the last capture is stopped and the keyboard and mouse grab are
\* released; the completion callback has only run after that cleanup; and
\* SetPollingResult run again in such a state changes nothing.
C16_QuietWhenIdle ==
    /\ ~input_setter.set
          => /\ ~timeout_timer
             /\ ~poll_timer
             /\ \A i \in 1..Len(device_pollers) : ~device_pollers[i].started
             /\ ~grab.keyboard
             /\ ~grab.mouse
             /\ SetPollingResult(State, EmptyPackage, TRUE) = State
    /\ setter_calls.count >= 1 => setter_calls.clean

\* a capture was resolved by a poller and both pollers it had started are stopped
C16_ResolvedByPoller ==
    /\ event.handler = "poll_timer.timeout"
    /\ ~input_setter.set
    /\ setter_calls.count = 1
    /\ ~setter_calls.cancel
    /\ Len(device_pollers) = 2
    /\ \A i \in 1..Len(device_pollers) : ~device_pollers[i].started


\* C17: the delete-binding button and the Delete key remove the current row and
\* the marker of that row and leave every other row and marker as it is and in
\* order; with no current row they change nothing; and in every step of the
\* editor the markers that disappear are exactly those of the rows that disappear.
C17_DeleteBindingFrame ==
    /\ [][(\/ event'.handler = "button_delete_bind.clicked"
           \/ event'.handler = "keyPressEvent" /\ ~input_setter.set /\ event'.changed)
            => IF current_row >= 0
               THEN LET Without(seq, k) == SubSeq(seq, 1, k - 1) \o SubSeq(seq, k + 1, Len(seq))
                        gone == rows[current_row + 1].dot
                    IN  /\ rows' = Without(rows, current_row + 1)
                        /\ \E k \in 1..Len(dots) : dots[k].id = gone /\ dots' = Without(dots, k)
                        /\ \A j \in 1..Len(dots') : dots'[j].id # gone
               ELSE rows' = rows /\ dots' = dots]_vars
    /\ [][(event'.handler = "keyPressEvent" /\ ~input_setter.set /\ current_row < 0)
            => (rows' = rows /\ dots' = dots)]_vars
    /\ [][{dots[j].id : j \in 1..Len(dots)} \ {dots'[j].id : j \in 1..Len(dots')}
            = {rows[i].dot : i \in 1..Len(rows)} \ {rows'[i].dot : i \in 1..Len(rows')}]_vars

\* the Delete key removed one of the two rows of a profile, and its marker
C17_DeleteKeyRemovedRow ==
    /\ event = [handler |-> "keyPressEvent", changed |-> TRUE]
    /\ ~setter_calls.started
    /\ Len(rows) = 1
    /\ Len(dots) = 1
    /\ rows[1].dot = dots[1].id


\* C18: the marker of every row holds the device coordinates written in the
\* x and y cells of that row, in every state and so after every drag of a
\* marker and every edit of a coordinate cell.
C18_MarkerAtRowCoordinates ==
    \A i \in 1..Len(rows) :
        \E j \in 1..Len(dots) :
            /\ dots[j].id = rows[i].dot
            /\ QStringNumber(dots[j].x) = rows[i].x
            /\ QStringNumber(dots[j].y) = rows[i].y

\* a marker was dragged beyond the top right corner of the canvas: the marker
\* and its row are at (W-1, 0)
C18_DraggedToCorner ==
    /\ event = [handler |-> "dot.mouseMove", changed |-> TRUE]
    /\ drag_state.active
    /\ \E i \in 1..Len(rows) :
          /\ rows[i].dot = drag_state.dot
          /\ rows[i].x = QStringNumber(kScreenBottomWidth - 1)
          /\ rows[i].y = "0"
    /\ \E j \in 1..Len(dots) :
          /\ dots[j].id = drag_state.dot
          /\ dots[j].x = kScreenBottomWidth - 1
          /\ dots[j].y = 0


\* C19: a profile created with a non-empty name is appended as the last one,
\* with that name and no bindings; the profiles that were there keep their
\* places and names (and, but for the one that was selected, their bindings);
\* the new profile is the selected one, and the editor shows no row and no
\* marker.  A name some profile already has is accepted.
C19_ProfileAppendedAndSelected ==
    [][(event'.handler = "button_new.clicked" /\ event'.changed)
        => /\ Len(touch_maps') = Len(touch_maps) + 1
           /\ \A i \in 1..Len(touch_maps) :
                 /\ touch_maps'[i].name = touch_maps[i].name
                 /\ i # selected_index + 1 => touch_maps'[i] = touch_maps[i]
           /\ touch_maps'[Len(touch_maps')].name \in Names \ {""}
           /\ touch_maps'[Len(touch_maps')].buttons = <<>>
           /\ selected_index' = Len(touch_maps') - 1
           /\ rows' = <<>>
           /\ dots' = <<>>]_vars

\* a second profile named "Custom" was created and is the selected one
C19_DuplicateNameCreated ==
    /\ event = [handler |-> "button_new.clicked", changed |-> TRUE]
    /\ selected_index = Len(touch_maps) - 1
    /\ \E i \in 1..(Len(touch_maps) - 1) :
          touch_maps[i].name = touch_maps[Len(touch_maps)].name
    /\ rows = <<>>
    /\ dots = <<>>


\* C20: the markers shown have distinct ids, increasing in the order of their
\* creation and none above max_dot_id; max_dot_id never decreases; and every
\* marker created by a step has an id above max_dot_id as it was before the
\* step, hence above every id given out earlier, removed or not.
C20_DotIdsNeverReused ==
    /\ [](\A j \in 1..Len(dots) :
            /\ 1 <= dots[j].id
            /\ dots[j].id <= max_dot_id
            /\ \A k \in (j + 1)..Len(dots) : dots[j].id < dots[k].id)
    /\ [][/\ max_dot_id' >= max_dot_id
          /\ \A j \in 1..Len(dots') :
                \/ \E k \in 1..Len(dots) : dots[k].id = dots'[j].id
                \/ dots'[j].id > max_dot_id
          /\ Cardinality({j \in 1..Len(dots') : dots'[j].id > max_dot_id})
                <= max_dot_id' - max_dot_id]_vars

\* a profile was loaded after markers had been removed: its markers carry ids
\* beyond those of the removed ones
C20_ReloadedWithNewIds ==
    /\ event.handler = "mapping.activated"
    /\ Len(dots) >= 1
    /\ dots[1].id > 2
    /\ dots[Len(dots)].id = max_dot_id


\* C21: in a poll tick the pollers are asked in list order up to and including
\* the first whose answer has an engine; the capture is then resolved with that
\* answer and the pollers after it are not asked; when no answer has an engine
\* every poller was asked and the capture, the rows, the markers and the timers
\* are as before the tick.
C21_FirstPollerWins ==
    [][event'.handler = "poll_timer.timeout"
        => LET pollers == device_pollers'
               asked == {i \in 1..Len(pollers) : pollers[i].asked}
               hits == {i \in asked : Has(pollers[i].answer, "engine")}
           IN  /\ Len(pollers) = Len(device_pollers)
               /\ \A i \in asked : \A j \in 1..i : j \in asked
               /\ IF hits = {}
                  THEN /\ asked = 1..Len(pollers)
                       /\ input_setter' = input_setter
                       /\ input_setter'.set
                       /\ setter_calls' = setter_calls
                       /\ rows' = rows
                       /\ dots' = dots
                       /\ timeout_timer' /\ poll_timer'
                       /\ \A i \in 1..Len(pollers) : pollers[i].started
                  ELSE /\ \E first \in hits :
                             /\ hits = {first}
                             /\ asked = 1..first
                             /\ setter_calls'.params = pollers[first].answer
                       /\ ~input_setter'.set
                       /\ setter_calls'.count = 1
                       /\ ~setter_calls'.cancel]_vars

\* the first poller answered with its button: the capture is resolved with it
\* and the second poller was not asked
C21_SecondPollerNotAsked ==
    /\ event.handler = "poll_timer.timeout"
    /\ Len(device_pollers) = 2
    /\ device_pollers[1].asked
    /\ ~device_pollers[2].asked
    /\ setter_calls.count = 1
    /\ setter_calls.params = device_pollers[1].answer
    /\ GetStr(setter_calls.params, "button", "") = "0"


\* C22: a key pressed during a capture ends the capture in that very step:
\* Escape cancels it, any other key, Delete too, resolves it with the keyboard
\* descriptor of that key and removes no row and no marker; a key pressed while
\* no capture is active invokes no callback, and Delete then removes the
\* current row, if there is one, and any other key changes nothing.
C22_KeyEndsCapture ==
    [][probe.phase = "ready"
        => IF input_setter.set
           THEN /\ ~input_setter'.set
                /\ setter_calls'.count = 1
                /\ IF probe.key = Key_Escape
                   THEN setter_calls'.cancel /\ DOMAIN setter_calls'.params = {}
                   ELSE /\ ~setter_calls'.cancel
                        /\ GetStr(setter_calls'.params, "engine", "") = "keyboard"
                        /\ GetInt(setter_calls'.params, "code", 0) = probe.key
                        /\ Parse(rows'[input_setter.row_index + 1].data) = setter_calls'.params
                        /\ Len(rows') = Len(rows)
                        /\ dots' = dots
           ELSE /\ input_setter' = input_setter
                /\ setter_calls' = setter_calls
                /\ IF probe.key = Key_Delete /\ current_row >= 0
                   THEN /\ rows' = SubSeq(rows, 1, current_row)
                                    \o SubSeq(rows, current_row + 2, Len(rows))
                        /\ Len(dots') = Len(dots) - 1
                   ELSE rows' = rows /\ dots' = dots]_vars

\* Delete was pressed during the capture for an existing row: the row is bound
\* to the Delete key and no row is gone
C22_DeleteKeyBound ==
    /\ probe.phase = "pressed"
    /\ probe.key = Key_Delete
    /\ probe.kind = "edit"
    /\ probe.row >= 0
    /\ setter_calls.count = 1
    /\ ~setter_calls.cancel
    /\ rows[probe.row + 1].text = "Del"
    /\ Len(rows) = Len(touch_maps[selected_index + 1].buttons)


\* C23: the timeout handler or the poll handler run after the end of a capture
\* invokes no callback and leaves the rows with their descriptors, the markers,
\* the profiles, the timers, the pollers and the grab as they are.
C23_LateTickChangesNothing ==
    [][probe.phase = "ended"
        => /\ ~input_setter.set
           /\ setter_calls.count = 1
           /\ setter_calls' = setter_calls
           /\ input_setter' = input_setter
           /\ rows' = rows
           /\ dots' = dots
           /\ max_dot_id' = max_dot_id
           /\ current_row' = current_row
           /\ touch_maps' = touch_maps
           /\ selected_index' = selected_index
           /\ timeout_timer' = timeout_timer
           /\ poll_timer' = poll_timer
           /\ grab' = grab
           /\ Len(device_pollers') = Len(device_pollers)
           /\ \A i \in 1..Len(device_pollers) :
                 device_pollers'[i].started = device_pollers[i].started]_vars

\* after a capture resolved by a key, a poll tick ran in which the first poller
\* had an input: the row is still bound to the key
C23_LatePollWithInput ==
    /\ probe.phase = "late"
    /\ probe.ending = "key"
    /\ probe.tick = "poll"
    /\ probe.kind = "edit"
    /\ Has(probe.inputs[1], "engine")
    /\ device_pollers[1].asked
    /\ setter_calls.count = 1
    /\ rows[1].text = "A"
    /\ GetStr(Parse(rows[1].data), "engine", "") = "keyboard"


\* C24: the highlighted markers are exactly the marker of the selected row,
\* none when no row is selected, so at most one marker is highlighted and
\* it is a marker shown; a click on a row leaves that row's marker the
\* highlighted one and the marker of the row selected before it plain.
C24_HighlightFollowsSelection ==
    /\ [](/\ Cardinality(highlighted) <= 1
          /\ \A id \in highlighted : DotIndex(dots, id) # 0
          /\ highlighted = IF selected_row >= 0
                           THEN {rows[selected_row + 1].dot} ELSE {})
    /\ [][event'.handler \in {"binding_list.clicked", "dot.mousePress"}
            /\ selected_row' # selected_row
            => /\ selected_row' >= 0
               /\ current_row' = selected_row'
               /\ highlighted' = {rows[selected_row' + 1].dot}
               /\ selected_row >= 0
                  => rows[selected_row + 1].dot \notin highlighted']_vars

\* the second row of "Custom" was selected, then a click selected the first
C24_SelectionMoved ==
    /\ event = [handler |-> "binding_list.clicked", changed |-> TRUE]
    /\ user_events = 2
    /\ touch_maps \in InitialMaps
    /\ ~setter_calls.started
    /\ Len(rows) = 2
    /\ max_dot_id = 2
    /\ selected_row = 0
    /\ highlighted = {rows[1].dot}


\* C25: MapToDeviceCoords yields no mapping or a point with 0 <= x < 320 and
\* 0 <= y < 240, and no mapping for a pixel left of or above the content
\* rectangle; a press adds a row, with the mapped coordinates, only when
\* there is a mapping.
C25_MappedPointInRange ==
    /\ probe.phase \in {"mapped", "pressed"}
       => /\ probe.mapped.valid
             => /\ probe.mapped.x \in 0..(kScreenBottomWidth - 1)
                /\ probe.mapped.y \in 0..(kScreenBottomHeight - 1)
          /\ (probe.x < probe.canvas.left \/ probe.y < probe.canvas.top)
             => probe.mapped = NoPoint
    /\ probe.phase = "pressed"
       => IF probe.mapped.valid
          THEN /\ Len(rows) = 2
               /\ rows[2].x = QStringNumber(probe.mapped.x)
               /\ rows[2].y = QStringNumber(probe.mapped.y)
               /\ ToInt(rows[2].x, -1) \in 0..(kScreenBottomWidth - 1)
               /\ ToInt(rows[2].y, -1) \in 0..(kScreenBottomHeight - 1)
          ELSE Len(rows) = 1 /\ Len(dots) = 1 /\ ~input_setter.set

\* a press one pixel beyond the right edge of a canvas twice the device's
\* size added a row at the last device column
C25_PressedAtRightEdge ==
    /\ probe.phase = "pressed"
    /\ probe.canvas.width = 2 * kScreenBottomWidth
    /\ probe.x = probe.canvas.left + probe.canvas.width
    /\ probe.mapped.valid
    /\ probe.mapped.x = kScreenBottomWidth - 1
    /\ Len(rows) = 2


\* C26: a switch of profile or a commit writes to the profile that was
\* selected one binding for each row whose descriptor is not empty and has
\* an engine, in the order of those rows, and none for the other rows:
\* every binding written has an engine, that of its row.
C26_UnboundRowsNotSaved ==
    [][event'.handler \in {"mapping.activated", "buttonBox.accepted"}
        => LET IsBound(r) == r.data # <<>> /\ Has(Parse(r.data), "engine")
               bound == SelectSeq(rows, IsBound)
               saved == touch_maps'[selected_index + 1].buttons
           IN  /\ Len(saved) = Len(bound)
               /\ Len(saved) = Len(rows) - Cardinality({i \in 1..Len(rows) : ~IsBound(rows[i])})
               /\ \A k \in 1..Len(saved) :
                     /\ Has(Parse(saved[k]), "engine")
                     /\ GetStr(Parse(saved[k]), "engine", "")
                          = GetStr(Parse(bound[k].data), "engine", "")
                     /\ GetInt(Parse(saved[k]), "x", 0) = ToInt(bound[k].x, 0)
                     /\ GetInt(Parse(saved[k]), "y", 0) = ToInt(bound[k].y, 0)]_vars

\* the commit of "Custom" wrote its bound row and left out the row without
\* an engine
C26_UnboundRowLeftOut ==
    /\ event = [handler |-> "buttonBox.accepted", changed |-> TRUE]
    /\ Len(rows) = 2
    /\ Has(Parse(rows[1].data), "engine")
    /\ ~Has(Parse(rows[2].data), "engine")
    /\ Len(touch_maps[selected_index + 1].buttons) = 1
    /\ Has(Parse(touch_maps[selected_index + 1].buttons[1]), "engine")

====
